---- MODULE Spec2Model ----
(***************************************************************************)
(* A model of the book-library tracker: the Library State Manager of       *)
(* App.tsx (addBook / updateBook over the useLocalStorage hook), the        *)
(* AddBookModal that feeds it (search add, manual add, CSV/XML bulk         *)
(* import) and the BookDetailModal that updates it (status update, AI       *)
(* cover generation).                                                       *)
(*                                                                         *)
(* React state is modelled as variables; a handler closes over the values   *)
(* of the render it was created in.  A handler run from a UI event sees the *)
(* current render; the continuation of an awaited call sees the render in   *)
(* which the call was started.                                              *)
(***************************************************************************)
EXTENDS Integers, Sequences, FiniteSets, TLC

VARIABLES
    books,               \* App: const [books, setBooks] = useLocalStorage('library_books', [])
    stored,              \* window.localStorage content under 'library_books'
    selectedBookDetail,  \* App: useState<Book | null>(null)
    parsedBooks,         \* AddBookModal: useState<Book[]>([])
    bulkError,           \* AddBookModal: useState('')
    bulkSuccessCount,    \* AddBookModal: useState(0)
    inflight,            \* pending generateBookCover calls, each with its closure
    now,                 \* Date.now()
    alert,               \* text of the alert() raised by the last step, "" if none
    wrote,               \* localStorage.setItem calls of the last step: how many, and whether they succeeded
    lastOp,              \* the handler run by the last step and its argument
    added,               \* entries appended to the Library since the page was loaded
    filters,             \* App: useState<Filters>(initialFilters)
    chat,                \* BookwormChat: its messages, userInput, isLoading; NULL while isChatOpen is false
    asking,              \* pending askBookworm calls, each with its closure
    search               \* AddBookModal: results, isLoading, error, hasSearched of the search tab

vars == <<books, stored, selectedBookDetail, parsedBooks, bulkError,
          bulkSuccessCount, inflight, now, alert, wrote, lastOp, added, filters,
          chat, asking, search>>

----------------------------------------------------------------------------
(* Bounds of the model *)

MaxBooks == 2       \* adds are explored while the Library has at most this many entries
MaxBatch == 2       \* longest array handed to addBook in SpecApi

----------------------------------------------------------------------------
(* types.ts: ReadingStatus, Book *)

Read == "Okudum"
Unread == "Okumadim"
Reading == "Okuyorum"
PlanningToRead == "Okumayi Dusunuyorum"
Dropped == "Yarida Biraktim"

ReadingStatus == {Read, Unread, Reading, PlanningToRead, Dropped}

NULL == [null |-> TRUE]

\* The number NaN (what parseInt gives for a string with no leading digits);
\* every comparison with it is false.
NaN == -99
\* JSON null: what JSON.stringify writes for the number NaN.
JsonNull == -98

isNaN(n) == n = NaN

Book(id, title, authors, publisher, categories, pageCount, thumbnail, readingStatus, currentPage) ==
    [id |-> id, title |-> title, authors |-> authors, publisher |-> publisher,
     categories |-> categories, pageCount |-> pageCount,
     thumbnail |-> thumbnail, readingStatus |-> readingStatus,
     currentPage |-> currentPage]

----------------------------------------------------------------------------
(* Strings.  A string is a sequence of tokens: a token is a run of characters *)
(* without white space, comma or quote ("Dune", "3"), or one of " ", ",",   *)
(* and the quote character Q.  The empty string is <<>>.                  *)

WS == " "
Comma == ","
Q == "quote"

Min(a, b) == IF a < b THEN a ELSE b
Max(a, b) == IF a > b THEN a ELSE b

\* String.prototype.trim
RECURSIVE trimStart(_)
trimStart(t) == IF t # <<>> /\ Head(t) = WS THEN trimStart(Tail(t)) ELSE t
RECURSIVE trimEnd(_)
trimEnd(t) == IF t # <<>> /\ t[Len(t)] = WS THEN trimEnd(SubSeq(t, 1, Len(t) - 1)) ELSE t
trim(t) == trimEnd(trimStart(t))

\* String.prototype.split(','): the pieces between the commas, at least one.
RECURSIVE split(_)
split(t) ==
    IF \E i \in 1..Len(t) : t[i] = Comma
    THEN LET i == CHOOSE k \in 1..Len(t) : t[k] = Comma /\ \A j \in 1..(k - 1) : t[j] # Comma
         IN <<SubSeq(t, 1, i - 1)>> \o split(SubSeq(t, i + 1, Len(t)))
    ELSE <<t>>

\* String.prototype.toLowerCase, token by token
lowerToken(c) ==
    CASE c = "Dune" -> "dune"
      [] c = "Emma" -> "emma"
      [] c = "Frank" -> "frank"
      [] c = "Jane" -> "jane"
      [] c = "Title" -> "title"
      [] c = "Author" -> "author"
      [] c = "Authors" -> "authors"
      [] c = "Publisher" -> "publisher"
      [] c = "Unknown" -> "unknown"
      [] c = "Uncategorized" -> "uncategorized"
      [] c = "Ace" -> "ace"
      [] c = "Fiction" -> "fiction"
      [] c = "Okudum" -> "okudum"
      [] c = "Okumadim" -> "okumadim"
      [] c = "Okuyorum" -> "okuyorum"
      [] c = "Okumayi" -> "okumayi"
      [] c = "Dusunuyorum" -> "dusunuyorum"
      [] c = "Yarida" -> "yarida"
      [] c = "Biraktim" -> "biraktim"
      [] OTHER -> c
toLowerCase(t) == [i \in 1..Len(t) |-> lowerToken(t[i])]

\* parseInt(t, 10): leading white space is skipped, then an optional sign and
\* the longest run of digits are read; NaN when there is no digit.
numberOfToken(c) ==
    CASE c = "0" -> 0
      [] c = "1" -> 1
      [] c = "2" -> 2
      [] c = "3" -> 3
      [] c = "9" -> 9
      [] c = "-1" -> -1
      [] c = "3x" -> 3
      [] OTHER -> NaN
parseInt(t) == LET s == trimStart(t) IN IF s = <<>> THEN NaN ELSE numberOfToken(Head(s))

\* x || y for strings: the empty string is falsy
orElse(x, y) == IF x # <<>> THEN x ELSE y

\* array.map(a => a.trim())
mapTrim(ts) == [i \in 1..Len(ts) |-> trim(ts[i])]
\* array.filter(Boolean) on strings
filterBoolean(ts) == SelectSeq(ts, LAMBDA x : x # <<>>)

\* The placeholders of a Book without a publisher or a category
UnknownPublisher == <<"Unknown", WS, "Publisher">>
Uncategorized == <<"Uncategorized">>

----------------------------------------------------------------------------
(* useLocalStorage *)

\* JSON.stringify(valueToStore): numbers that are NaN are written as null.
JSONstringify(value) ==
    [i \in 1..Len(value) |->
        [value[i] EXCEPT !.currentPage = IF isNaN(@) THEN JsonNull ELSE @,
                         !.pageCount = IF isNaN(@) THEN JsonNull ELSE @]]

Absent == [kind |-> "absent", value |-> <<>>]
Corrupt == [kind |-> "corrupt", value |-> <<>>]
Item(json) == [kind |-> "item", value |-> json]

NoWrite == [calls |-> 0, ok |-> TRUE]

\* setValue with value an updater function: valueToStore is value(storedValue),
\* the updater applied to the storedValue of the render that created this
\* setValue (not to React's pending state); the state is set, then the snapshot
\* is written.  A throwing setItem (ok = FALSE) is caught and logged, after the
\* state was set.
setValue_noWrite(valueToStore, ok) ==
    /\ books' = valueToStore
    /\ stored' = stored
    /\ wrote' = NoWrite

setValue_abortOnThrow(valueToStore, ok) ==
    /\ books' = IF ok THEN valueToStore ELSE books
    /\ stored' = IF ok THEN Item(JSONstringify(valueToStore)) ELSE stored
    /\ wrote' = [calls |-> 1, ok |-> ok]

setValue(valueToStore, ok) ==
    /\ books' = valueToStore
    /\ stored' = IF ok THEN Item(JSONstringify(valueToStore)) ELSE stored
    /\ wrote' = [calls |-> 1, ok |-> ok]

----------------------------------------------------------------------------
(* App: addBook, updateBook *)

\* books.some(b => b.id === id)
some(bs, id) == \E i \in 1..Len(bs) : bs[i].id = id

DuplicateAlert == "This book is already in your library."

\* addBook, the Array.isArray branch.  render is the books of the render that
\* created this addBook; it is also the storedValue of its setBooks.
addBookBulk_perBook(bookOrBooks, render, ok) ==
    LET newBooks == SelectSeq(bookOrBooks, LAMBDA newBook : ~some(render, newBook.id)) IN
    /\ IF Len(newBooks) > 0
       THEN /\ books' = Append(render, newBooks[Len(newBooks)])
            /\ stored' = IF ok THEN Item(JSONstringify(books')) ELSE stored
            /\ wrote' = [calls |-> Len(newBooks), ok |-> ok]
       ELSE UNCHANGED <<books, stored>> /\ wrote' = NoWrite
    /\ alert' = ""

addBookBulk(bookOrBooks, render, ok) ==
    LET newBooks == SelectSeq(bookOrBooks, LAMBDA newBook : ~some(render, newBook.id)) IN
    /\ IF Len(newBooks) > 0
       THEN setValue(render \o newBooks, ok)
       ELSE UNCHANGED <<books, stored>> /\ wrote' = NoWrite
    /\ alert' = ""

\* addBook, the single-book branch.
addBookSingle_prepend(bookOrBooks, render, ok) ==
    IF some(render, bookOrBooks.id)
    THEN /\ alert' = DuplicateAlert
         /\ UNCHANGED <<books, stored>>
         /\ wrote' = NoWrite
    ELSE /\ setValue(<<bookOrBooks>> \o render, ok)
         /\ alert' = ""

addBookSingle(bookOrBooks, render, ok) ==
    IF some(render, bookOrBooks.id)
    THEN /\ alert' = DuplicateAlert
         /\ UNCHANGED <<books, stored>>
         /\ wrote' = NoWrite
    ELSE /\ setValue(Append(render, bookOrBooks), ok)
         /\ alert' = ""

addBook(bookOrBooks, isArray, render, ok) ==
    IF isArray THEN addBookBulk(bookOrBooks, render, ok)
               ELSE addBookSingle(bookOrBooks, render, ok)

\* prevBooks.map(book => book.id === updatedBook.id ? updatedBook : book)
mapUpdated_upsert(prevBooks, updatedBook) ==
    Append([i \in 1..Len(prevBooks) |->
               IF prevBooks[i].id = updatedBook.id THEN updatedBook ELSE prevBooks[i]],
           updatedBook)

mapUpdated_moveToEnd(prevBooks, updatedBook) ==
    IF some(prevBooks, updatedBook.id)
    THEN Append(SelectSeq(prevBooks, LAMBDA book : book.id # updatedBook.id), updatedBook)
    ELSE prevBooks

mapUpdated(prevBooks, updatedBook) ==
    [i \in 1..Len(prevBooks) |->
        IF prevBooks[i].id = updatedBook.id THEN updatedBook ELSE prevBooks[i]]

updateBook(updatedBook, render, ok) ==
    /\ setValue(mapUpdated(render, updatedBook), ok)
    /\ selectedBookDetail' = updatedBook
    /\ alert' = ""

----------------------------------------------------------------------------
(* App: filters, filteredBooks *)

initialFilters ==
    [title |-> <<>>, author |-> <<>>, publisher |-> <<>>, category |-> <<>>,
     readingStatus |-> "all"]

\* String.prototype.includes, on tokens: needle is a run of consecutive tokens of hay
includes(hay, needle) ==
    \E i \in 0..(Len(hay) - Len(needle)) : SubSeq(hay, i + 1, i + Len(needle)) = needle

\* array.join(', ')
RECURSIVE join(_)
join(ts) ==
    IF Len(ts) = 0 THEN <<>>
    ELSE IF Len(ts) = 1 THEN ts[1]
    ELSE ts[1] \o <<Comma, WS>> \o join(Tail(ts))

\* the predicate of books.filter in filteredBooks
filterMatch_noAll(book, f) ==
    /\ includes(toLowerCase(book.title), toLowerCase(f.title))
    /\ includes(toLowerCase(join(book.authors)), toLowerCase(f.author))
    /\ includes(toLowerCase(book.publisher), toLowerCase(f.publisher))
    /\ f.category = <<>>
          \/ includes(toLowerCase(join(book.categories)), toLowerCase(f.category))
    /\ book.readingStatus = f.readingStatus

filterMatch_caseSensitive(book, f) ==
    /\ includes(book.title, f.title)
    /\ includes(toLowerCase(join(book.authors)), toLowerCase(f.author))
    /\ includes(toLowerCase(book.publisher), toLowerCase(f.publisher))
    /\ f.category = <<>>
          \/ includes(toLowerCase(join(book.categories)), toLowerCase(f.category))
    /\ f.readingStatus = "all" \/ book.readingStatus = f.readingStatus

filterMatch(book, f) ==
    LET titleMatch == includes(toLowerCase(book.title), toLowerCase(f.title))
        authorMatch == includes(toLowerCase(join(book.authors)), toLowerCase(f.author))
        publisherMatch == includes(toLowerCase(book.publisher), toLowerCase(f.publisher))
        categoryMatch ==
            f.category = <<>>
            \/ includes(toLowerCase(join(book.categories)), toLowerCase(f.category))
        statusMatch == f.readingStatus = "all" \/ book.readingStatus = f.readingStatus
    IN titleMatch /\ authorMatch /\ publisherMatch /\ categoryMatch /\ statusMatch

filteredBooks(bs, f) == SelectSeq(bs, LAMBDA book : filterMatch(book, f))

----------------------------------------------------------------------------
(* StatsPanel: stats *)

\* books.reduce((acc, book) => acc + book[field], 0)
RECURSIVE sumOf(_, _)
sumOf(bs, field) == IF bs = <<>> THEN 0 ELSE bs[1][field] + sumOf(Tail(bs), field)

\* The quotients c / p of 0 <= c <= p for which the double (c / p) * 100 is
\* just below k + 1/2 although 100 * c / p is k + 1/2 exactly: the double
\* nearest to c / p lies below it and the product is rounded down
\* (23 / 40 * 100 is 57.49999999999999).  Every other product of such operands
\* rounds as the exact value does.
BelowHalf == {<<23, 40>>, <<29, 200>>, <<57, 200>>, <<113, 200>>}

\* Math.round((totalCurrentPages / totalPossiblePages) * 100), for
\* 0 <= totalCurrentPages <= totalPossiblePages and 0 < totalPossiblePages
roundPercent(totalCurrentPages, totalPossiblePages) ==
    IF \E q \in BelowHalf : totalCurrentPages * q[2] = totalPossiblePages * q[1]
    THEN (100 * totalCurrentPages) \div totalPossiblePages
    ELSE (200 * totalCurrentPages + totalPossiblePages) \div (2 * totalPossiblePages)

\* The categories counted, in the order the reduce meets them:
\* book by book, cat && cat !== 'Uncategorized'
RECURSIVE countedCategories(_)
countedCategories(bs) ==
    IF bs = <<>> THEN <<>>
    ELSE SelectSeq(bs[1].categories, LAMBDA cat : cat # <<>> /\ cat # Uncategorized)
         \o countedCategories(Tail(bs))

\* Object.entries(categoryCounts): one [cat, count] per category, in the order
\* the keys were inserted (no category of the model is an integer-like key)
RECURSIVE firstOccurrences(_)
firstOccurrences(cats) ==
    IF cats = <<>> THEN <<>>
    ELSE LET earlier == firstOccurrences(SubSeq(cats, 1, Len(cats) - 1))
             cat == cats[Len(cats)]
         IN IF \E k \in 1..Len(earlier) : earlier[k] = cat THEN earlier
            ELSE Append(earlier, cat)

categoryCounts(bs) ==
    LET cats == countedCategories(bs)
        keys == firstOccurrences(cats)
    IN [k \in 1..Len(keys) |->
           <<keys[k], Cardinality({j \in 1..Len(cats) : cats[j] = keys[k]})>>]

\* the callback of Object.entries(categoryCounts).reduce: (a, b) => a[1] > b[1] ? a : b
larger_keepFirst(a, b) == IF a[2] >= b[2] THEN a ELSE b

larger(a, b) == IF a[2] > b[2] THEN a ELSE b

\* array.reduce(callback) without an initial value
RECURSIVE reduceLarger(_)
reduceLarger(entries) ==
    IF Len(entries) = 1 THEN entries[1]
    ELSE larger(reduceLarger(SubSeq(entries, 1, Len(entries) - 1)), entries[Len(entries)])

NotAvailable == <<"N/A">>

stats(bs) ==
    LET relevantBooks ==
            SelectSeq(bs, LAMBDA b : b.readingStatus # PlanningToRead /\ b.pageCount > 0)
        totalCurrentPages == sumOf(relevantBooks, "currentPage")
        totalPossiblePages == sumOf(relevantBooks, "pageCount")
        entries == categoryCounts(bs)
    IN [totalBooks |-> Len(bs),
        booksRead |-> Len(SelectSeq(bs, LAMBDA b : b.readingStatus = Read)),
        overallPercentage |->
            IF totalPossiblePages > 0 THEN roundPercent(totalCurrentPages, totalPossiblePages)
                                      ELSE 0,
        favoriteGenre |->
            IF Len(entries) > 0 THEN reduceLarger(entries)[1] ELSE NotAvailable]

----------------------------------------------------------------------------
(* AddBookModal: handleAddBook *)

PagesAlert == "Please enter a valid number for total pages."
RequiredAlert == "Please fill in the required fields: Title and Author(s)."

\* `https://picsum.photos/seed/${seed}/300/480`
placeholder(seed) == <<"picsum">> \o seed
\* title.replace(/\s/g, '')
removeSpaces(t) == SelectSeq(t, LAMBDA c : c # WS)

\* finalCurrentPage(status, totalPages), currentPage being the form's input
finalCurrentPage(status, totalPages, currentPage) ==
    IF status = Read THEN totalPages
    ELSE IF status = Unread \/ status = PlanningToRead THEN 0
    ELSE LET parsed == parseInt(currentPage)
             current == IF isNaN(parsed) THEN 0 ELSE parsed   \* parseInt(..) || 0
         IN Max(0, Min(current, totalPages))

\* The total-pages guard: parseInt(pageCount, 10), rejected when NaN or <= 0.
validTotalPages_nonNegative(pageCount) ==
    LET totalPages == parseInt(pageCount) IN ~(isNaN(totalPages) \/ totalPages < 0)

validTotalPages(pageCount) ==
    LET totalPages == parseInt(pageCount) IN ~(isNaN(totalPages) \/ totalPages <= 0)

\* newBook of the selectedBook branch.  An ApiBook is
\* [id, title, authors, publisher, categories, thumbnail]; all but id and
\* title are optional.
Undefined == [undefined |-> TRUE]
Some(v) == [undefined |-> FALSE, v |-> v]

searchBook(selectedBook, pageCount, readingStatus, currentPage) ==
    LET totalPages == parseInt(pageCount) IN
    Book(selectedBook.id,
         selectedBook.title,
         IF selectedBook.authors.undefined THEN << <<"Unknown", WS, "Author">> >>
                                           ELSE selectedBook.authors.v,
         IF selectedBook.publisher.undefined THEN UnknownPublisher
                                             ELSE selectedBook.publisher.v,
         IF selectedBook.categories.undefined THEN << Uncategorized >>
                                              ELSE selectedBook.categories.v,
         totalPages,
         IF selectedBook.thumbnail.undefined THEN placeholder(selectedBook.id)
                                             ELSE selectedBook.thumbnail.v,
         readingStatus,
         finalCurrentPage(readingStatus, totalPages, currentPage))

\* The required-fields guard of the manual branch.
validManual(manualTitle, manualAuthors) ==
    ~(trim(manualTitle) = <<>> \/ trim(manualAuthors) = <<>>)

\* newBook of the manual branch (manualPublisher and manualImage left empty).
manualBook(manualTitle, manualAuthors, manualCategories, pageCount, readingStatus, currentPage, t) ==
    LET totalPages == parseInt(pageCount) IN
    Book(<<"manual", t>>,
         trim(manualTitle),
         filterBoolean(mapTrim(split(manualAuthors))),
         orElse(trim(<<>>), UnknownPublisher),
         IF manualCategories # <<>> THEN filterBoolean(mapTrim(split(manualCategories)))
                                    ELSE << Uncategorized >>,
         totalPages,
         placeholder(removeSpaces(manualTitle)),
         readingStatus,
         finalCurrentPage(readingStatus, totalPages, currentPage))

----------------------------------------------------------------------------
(* AddBookModal: bulk upload.  A CSV text is given as its lines, a line as   *)
(* the fields the comma regex of parseLine cuts it into; an XML text as its *)
(* <book> nodes, a node as the text of its first child of each tag ('' when *)
(* there is none).                                                           *)

CsvEmptyError == "CSV file is empty or missing headers"
UnsupportedError == "Unsupported file format. Please use .csv or .xml"
NoBooksError == "No valid books found in file."

\* line.trim() !== ''
isBlankLine(line) == Len(line) = 1 /\ trim(line[1]) = <<>>

\* val.trim().replace(/^"|"$/g, '').replace(/""/g, '"')
RECURSIVE undouble(_)
undouble(t) ==
    IF Len(t) < 2 THEN t
    ELSE IF t[1] = Q /\ t[2] = Q THEN <<Q>> \o undouble(SubSeq(t, 3, Len(t)))
    ELSE <<t[1]>> \o undouble(Tail(t))

unquote(val) ==
    LET a == trim(val)
        b == IF a # <<>> /\ Head(a) = Q THEN Tail(a) ELSE a
        c == IF b # <<>> /\ b[Len(b)] = Q THEN SubSeq(b, 1, Len(b) - 1) ELSE b
    IN undouble(c)

parseLine(line) == [i \in 1..Len(line) |-> unquote(line[i])]

\* row[header] after headers.forEach((header, index) => row[header] = values[index]):
\* the value under the last column of that name, '' (falsy) when there is none.
rowGet(headers, values, name) ==
    LET cols == {i \in 1..Len(headers) : headers[i] = <<name>>} IN
    IF cols = {} THEN <<>>
    ELSE values[CHOOSE i \in cols : \A j \in cols : j <= i]

\* Object.values(ReadingStatus).includes(status) ? status : PlanningToRead
statusText(st) ==
    CASE st = Read -> <<"Okudum">>
      [] st = Unread -> <<"Okumadim">>
      [] st = Reading -> <<"Okuyorum">>
      [] st = PlanningToRead -> <<"Okumayi", WS, "Dusunuyorum">>
      [] st = Dropped -> <<"Yarida", WS, "Biraktim">>

readingStatusOf_ignoreCase(text) ==
    IF \E st \in ReadingStatus : toLowerCase(statusText(st)) = toLowerCase(text)
    THEN CHOOSE st \in ReadingStatus : toLowerCase(statusText(st)) = toLowerCase(text)
    ELSE PlanningToRead

readingStatusOf(text) ==
    IF \E st \in ReadingStatus : statusText(st) = text
    THEN CHOOSE st \in ReadingStatus : statusText(st) = text
    ELSE PlanningToRead

\* The Book pushed for data line i (i counts from 1 after the header line).
csvBook(headers, values, i, t) ==
    LET row(name) == rowGet(headers, values, name)
        pageCountVal == parseInt(orElse(row("pagecount"), orElse(row("pages"), <<"0">>)))
    IN Book(<<"bulk", t, i>>,
            row("title"),
            IF row("author") # <<>> THEN mapTrim(split(row("author")))
            ELSE IF row("authors") # <<>> THEN mapTrim(split(row("authors")))
            ELSE << <<"Unknown">> >>,
            orElse(row("publisher"), UnknownPublisher),
            IF row("categories") # <<>> THEN mapTrim(split(row("categories")))
            ELSE IF row("category") # <<>> THEN << row("category") >>
            ELSE << Uncategorized >>,
            IF isNaN(pageCountVal) THEN 0 ELSE pageCountVal,
            orElse(orElse(row("imagelink"), row("thumbnail")),
                   placeholder(removeSpaces(row("title")))),
            readingStatusOf(row("status")),
            parseInt(orElse(row("currentpage"), <<"0">>)))

\* The two `continue` tests of parseCSV's loop: values.length < headers.length,
\* then !row.title || !row.author
skipRow(headers, values) ==
    \/ Len(values) < Len(headers)
    \/ rowGet(headers, values, "title") = <<>>
    \/ rowGet(headers, values, "author") = <<>>

\* parseCSV(text): [error, books]
parseCSV(text, t) ==
    LET lines == SelectSeq(text, LAMBDA line : ~isBlankLine(line)) IN
    IF Len(lines) < 2 THEN [error |-> CsvEmptyError, books |-> <<>>]
    ELSE
      LET headers == parseLine([k \in 1..Len(lines[1]) |-> toLowerCase(lines[1][k])])
          RECURSIVE rows(_)
          rows(k) ==
              IF k > Len(lines) THEN <<>>
              ELSE LET values == parseLine(lines[k]) IN
                   IF skipRow(headers, values) THEN rows(k + 1)
                   ELSE <<csvBook(headers, values, k - 1, t)>> \o rows(k + 1)
      IN [error |-> "", books |-> rows(2)]

\* The Book pushed for <book> node number i (i counts from 0).
xmlBook(node, i, t) ==
    LET pageCountVal == parseInt(orElse(node.pageCount, orElse(node.pages, <<"0">>))) IN
    Book(<<"bulk", t, i>>,
         node.title,
         IF node.author # <<>> THEN mapTrim(split(node.author)) ELSE << <<"Unknown">> >>,
         orElse(node.publisher, UnknownPublisher),
         IF node.categories # <<>> THEN split(node.categories) ELSE << Uncategorized >>,
         IF isNaN(pageCountVal) THEN 0 ELSE pageCountVal,
         orElse(node.thumbnail, placeholder(removeSpaces(node.title))),
         readingStatusOf(node.status),
         parseInt(orElse(node.currentPage, <<"0">>)))

parseXML(text, t) ==
    LET RECURSIVE nodes(_)
        nodes(k) ==
            IF k > Len(text) THEN <<>>
            ELSE IF text[k].title = <<>> THEN nodes(k + 1)
            ELSE <<xmlBook(text[k], k - 1, t)>> \o nodes(k + 1)
    IN [error |-> "", books |-> nodes(1)]

\* reader.onload of handleFileUpload: [bulkError, parsedBooks]
fileLoaded_anyExtension(file, t) ==
    LET parsed == IF file.ext = "xml" THEN parseXML(file.text, t)
                  ELSE parseCSV(file.text, t)
    IN IF parsed.error # "" THEN [bulkError |-> parsed.error, parsedBooks |-> <<>>]
       ELSE IF Len(parsed.books) = 0 THEN [bulkError |-> NoBooksError, parsedBooks |-> <<>>]
       ELSE [bulkError |-> "", parsedBooks |-> parsed.books]

fileLoaded(file, t) ==
    LET parsed == IF file.ext = "csv" THEN parseCSV(file.text, t)
                  ELSE IF file.ext = "xml" THEN parseXML(file.text, t)
                  ELSE [error |-> UnsupportedError, books |-> <<>>]
    IN IF parsed.error # "" THEN [bulkError |-> parsed.error, parsedBooks |-> <<>>]
       ELSE IF Len(parsed.books) = 0 THEN [bulkError |-> NoBooksError, parsedBooks |-> <<>>]
       ELSE [bulkError |-> "", parsedBooks |-> parsed.books]

\* b.authors[0]?.toLowerCase()
firstAuthorLower(b) ==
    IF Len(b.authors) = 0 THEN Undefined ELSE Some(toLowerCase(b.authors[1]))

\* isDuplicate of handleBulkImport
isDuplicate(render, book) ==
    \E i \in 1..Len(render) :
        /\ toLowerCase(render[i].title) = toLowerCase(book.title)
        /\ firstAuthorLower(render[i]) = firstAuthorLower(book)

\* newBooks of handleBulkImport
bulkNewBooks_idOnly(parsed, render) == parsed

bulkNewBooks(parsed, render) ==
    SelectSeq(parsed, LAMBDA book : ~isDuplicate(render, book))

----------------------------------------------------------------------------
(* BookDetailModal *)

\* finalCurrentPage of handleStatusUpdate
statusCurrentPage(book, currentStatus, currentPageInput) ==
    LET totalPages == book.pageCount IN
    IF currentStatus = Read THEN totalPages
    ELSE IF currentStatus = Unread \/ currentStatus = PlanningToRead THEN 0
    ELSE LET newPage == parseInt(currentPageInput) IN
         IF isNaN(newPage) \/ newPage < 0 THEN 0
         ELSE IF newPage > totalPages THEN totalPages
         ELSE newPage

\* updatedBook of handleStatusUpdate
statusUpdated(book, currentStatus, currentPageInput) ==
    [book EXCEPT !.readingStatus = currentStatus,
                 !.currentPage = statusCurrentPage(book, currentStatus, currentPageInput)]

----------------------------------------------------------------------------
(* geminiService: searchBooks, askBookworm.  The upstream call              *)
(* (client.models.generateContent, or getAiClient before it) either answers *)
(* or throws; an async function settles as resolved or rejected.            *)

Resolved(value) == [rejected |-> FALSE, value |-> value]

SearchFallback == <<>>
AskFallback == <<"I'm sorry, I encountered an error. Please try again.">>

\* searchBooks: return result.items || []; catch (error) { return [] }
searchBooks(upstream) ==
    IF upstream.throws \/ upstream.items = Undefined THEN Resolved(SearchFallback)
    ELSE Resolved(upstream.items.v)

askBookworm_passError(upstream) == Resolved(upstream.text)

\* askBookworm: return response.text; catch (error) { return "I'm sorry, ..." }
askBookworm(upstream) ==
    IF upstream.throws THEN Resolved(AskFallback) ELSE Resolved(upstream.text)

----------------------------------------------------------------------------
(* AddBookModal: the search tab *)

SearchError == "Failed to fetch books. Please try again."

initialSearch ==
    [titleQuery |-> <<>>, authorQuery |-> <<>>, results |-> <<>>, isLoading |-> FALSE, error |-> "",
     hasSearched |-> FALSE]

\* handleSearch up to its await
searchStarted(s) ==
    [s EXCEPT !.isLoading = TRUE, !.hasSearched = TRUE, !.error = "", !.results = <<>>]

\* handleSearch after its await: try { setResults(books) } catch { setError(...) }
\* finally { setIsLoading(false) }
searchSettled(s, settled) ==
    IF settled.rejected
    THEN [s EXCEPT !.error = SearchError, !.isLoading = FALSE]
    ELSE [s EXCEPT !.results = settled.value, !.isLoading = FALSE]

----------------------------------------------------------------------------
(* BookwormChat *)

Message(role, content) == [role |-> role, content |-> content]

Greeting ==
    <<"Hello! I'm Bookworm, your personal library assistant. Ask me anything about your books!">>
ConnectFallback == <<"Sorry, I'm having trouble connecting right now.">>

initialChat ==
    [messages |-> <<Message("model", Greeting)>>, userInput |-> <<>>, isLoading |-> FALSE]

sendAccepted_blankInput(c) == ~c.isLoading

\* handleSendMessage: if (!trimmedInput || isLoading) return
sendAccepted(c) == trim(c.userInput) # <<>> /\ ~c.isLoading

\* handleSendMessage: newMessages
newMessages(c) == Append(c.messages, Message("user", trim(c.userInput)))

\* handleSendMessage up to its await
sendStarted(c) == [c EXCEPT !.messages = newMessages(c), !.userInput = <<>>, !.isLoading = TRUE]

\* handleSendMessage after its await: the reply, or the catch block's text,
\* is appended to the newMessages of the render that sent; finally the
\* loading flag is cleared.
sendSettled(c, sent, settled) ==
    [c EXCEPT !.messages = Append(sent, Message("model",
                                IF settled.rejected THEN ConnectFallback ELSE settled.value)),
              !.isLoading = FALSE]

----------------------------------------------------------------------------
(* SpecApi: the state manager called with every Book and every batch of a   *)
(* small domain, each call made from the current render.                     *)

ApiIds == {<<"a">>, <<"b">>}

\* Three Book values per id: they differ in status and page so that an update
\* is visible; the third carries a NaN currentPage as a bulk row can.
ApiBook(id, v) ==
    Book(id, <<"Dune">>, << <<"Frank">> >>, UnknownPublisher, << Uncategorized >>,
         3, <<"ph">>,
         CASE v = 1 -> PlanningToRead [] v = 2 -> Read [] OTHER -> Reading,
         CASE v = 1 -> 0 [] v = 2 -> 3 [] OTHER -> NaN)

ApiBooks == {ApiBook(id, v) : id \in ApiIds, v \in 1..3}

RECURSIVE SeqsUpTo(_, _)
SeqsUpTo(S, n) ==
    IF n = 0 THEN {<<>>}
    ELSE LET shorter == SeqsUpTo(S, n - 1) IN
         shorter \cup {Append(s, x) : s \in {t \in shorter : Len(t) = n - 1}, x \in S}

ApiBatches == SeqsUpTo(ApiBooks, MaxBatch)

\* lastOp: the handler of the last step, its argument, and whether the step
\* before it ran the same handler with the same argument.
Op(op, arg) == [op |-> op, arg |-> arg, again |-> FALSE]

UiUnchanged == UNCHANGED <<chat, asking, search, filters, parsedBooks, bulkError, bulkSuccessCount, inflight, now, added>>

InitCommon ==
    /\ selectedBookDetail = NULL
    /\ parsedBooks = <<>>
    /\ bulkError = ""
    /\ bulkSuccessCount = 0
    /\ inflight = {}
    /\ now = 0
    /\ alert = ""
    /\ wrote = NoWrite
    /\ lastOp = Op("init", NULL)
    /\ added = 0
    /\ filters = initialFilters
    /\ chat = NULL
    /\ asking = {}
    /\ search = initialSearch

InitApi ==
    /\ books = <<>>
    /\ stored = Absent
    /\ InitCommon

ApiAddOne ==
    \E book \in ApiBooks, ok \in BOOLEAN :
        /\ Len(books) < MaxBooks \/ some(books, book.id)
        /\ addBook(book, FALSE, books, ok)
        /\ lastOp' = Op("addOne", book)
        /\ UNCHANGED selectedBookDetail
        /\ UiUnchanged

ApiAddMany ==
    \E batch \in ApiBatches, ok \in BOOLEAN :
        /\ Len(books) + Len(batch) <= MaxBooks
        /\ addBook(batch, TRUE, books, ok)
        /\ lastOp' = Op("addMany", batch)
        /\ UNCHANGED selectedBookDetail
        /\ UiUnchanged

ApiUpdate ==
    \E book \in ApiBooks, ok \in BOOLEAN :
        /\ updateBook(book, books, ok)
        /\ lastOp' = [Op("update", book) EXCEPT
                         !.again = lastOp.op = "update" /\ lastOp.arg = book]
        /\ UiUnchanged

NextApi == ApiAddOne \/ ApiAddMany \/ ApiUpdate

SpecApi == InitApi /\ [][NextApi]_vars

----------------------------------------------------------------------------
(* Spec: the application.  Every step is one UI event handled to completion *)
(* in the current render.  In this specification every setItem succeeds;    *)
(* a throwing setItem is explored in SpecApi.                                *)

MaxAdded == 1       \* adds are explored while the session has appended at most this many entries
MaxClock == 1       \* Date.now() takes the values 0..MaxClock

\* What searchBooks returned: one result with authors and thumbnail, one without.
SearchResults ==
    { [id |-> <<"g1">>, title |-> <<"Dune">>, authors |-> Some(<< <<"Frank">> >>),
       publisher |-> Some(<<"Ace">>), categories |-> Some(<< <<"Fiction">> >>),
       thumbnail |-> Some(<<"http://img">>)],
      [id |-> <<"g2">>, title |-> <<"Emma">>, authors |-> Undefined,
       publisher |-> Undefined, categories |-> Undefined,
       thumbnail |-> Undefined] }

\* What the user may choose and type in the forms: one status for each branch
\* of finalCurrentPage, and a page beyond the end of the book.
StatusInputs == {Read, PlanningToRead, Reading}
PageCountInputs == {<<>>, <<"0">>, <<"3">>}
CurrentPageInputs == {<<"9">>}
ManualTitleInputs == {<<WS>>, <<"Emma">>}
ManualAuthorsInputs == {<<>>, <<Comma>>, <<"Jane">>}
ManualCategoriesInputs == {<<>>}

\* The files the user may upload, listed.
CsvLine(title, author, pages, status, currentpage) ==
    <<title, author, pages, status, currentpage>>
CsvHeader == CsvLine(<<"Title">>, <<"Author">>, <<"pages">>, <<"status">>, <<"currentpage">>)

XmlNode(title, author, pages, status, currentPage) ==
    [title |-> title, author |-> author, publisher |-> <<>>, categories |-> <<>>,
     pageCount |-> <<>>, pages |-> pages,
     thumbnail |-> <<>>, status |-> status, currentPage |-> currentPage]

Files ==
    << \* a finished book without a currentpage value, and a row without a title
      [ext |-> "csv",
       text |-> << CsvHeader,
                   CsvLine(<<Q, "Dune", Q>>, <<"Frank">>, <<"3">>, <<"Okudum">>, <<>>),
                   CsvLine(<<>>, <<"Jane">>, <<"3">>, <<"Okudum">>, <<"3">>) >>],
      \* a status that is no ReadingStatus, pages that do not parse, a page
      \* beyond the end, and the title of the first file in lower case
      [ext |-> "csv",
       text |-> << CsvHeader,
                   CsvLine(<<"Emma">>, <<"Jane">>, <<"-1">>, <<"okudum">>, <<"abc">>),
                   CsvLine(<<"dune">>, <<"frank">>, <<"abc">>, <<"Okuyorum">>, <<"9">>) >>],
      \* a header line alone
      [ext |-> "csv", text |-> << CsvHeader >>],
      \* a node without a title, and a book without an author
      [ext |-> "xml",
       text |-> << XmlNode(<<>>, <<"Jane">>, <<"3">>, <<"Okudum">>, <<"3">>),
                   XmlNode(<<"Emma">>, <<>>, <<"3">>, <<"Yarida", WS, "Biraktim">>, <<"2">>) >>],
      [ext |-> "txt", text |-> <<>>] >>

\* useLocalStorage's initial state: item ? JSON.parse(item) : initialValue,
\* and initialValue when JSON.parse throws.
load_ignoreStored(item, initialValue) == initialValue

load(item, initialValue) ==
    IF item.kind = "item" THEN item.value ELSE initialValue

\* A snapshot left by an earlier session: one book added from a search result.
EarlierSnapshot ==
    <<searchBook(CHOOSE r \in SearchResults : r.id = <<"g1">>, <<"3">>, Read, <<>>)>>

Init ==
    /\ stored \in {Absent, Corrupt, Item(JSONstringify(EarlierSnapshot))}
    /\ books = load(stored, <<>>)
    /\ InitCommon

AddModalIdle == parsedBooks = <<>> /\ bulkError = "" /\ bulkSuccessCount = 0
AddModalReset == parsedBooks' = <<>> /\ bulkError' = "" /\ bulkSuccessCount' = 0

\* added counts the entries appended since the page was loaded
Appended == added' = added + Len(books') - Len(books)

\* The clock is read only to mint ids (manual_<now>, bulk_<now>_<i>), so it
\* is advanced only past a millisecond in which an id of the Library was minted.
mintedAt(id, t) == Len(id) >= 2 /\ id[2] = t

Tick ==
    /\ now < MaxClock
    /\ \E i \in 1..Len(books) : mintedAt(books[i].id, now)
    /\ now' = now + 1
    /\ lastOp' = Op("tick", NULL)
    /\ alert' = ""
    /\ wrote' = NoWrite
    /\ UNCHANGED <<chat, asking, search, filters, books, stored, selectedBookDetail, parsedBooks, bulkError,
                   bulkSuccessCount, inflight, added>>

\* The values the user may choose and type for each field of the add form.
\* With record the values typed in a step are kept in lastOp, as far as the
\* handler read them: up to the total-pages guard ("pages"), up to the
\* required-fields guard ("required"), or all of them ("submitted").
Form ==
    [selectedBook |-> SearchResults, pageCount |-> PageCountInputs,
     currentPage |-> CurrentPageInputs, readingStatus |-> StatusInputs,
     manualTitle |-> ManualTitleInputs, manualAuthors |-> ManualAuthorsInputs,
     manualCategories |-> ManualCategoriesInputs, record |-> FALSE]

Recorded(record, arg) == IF record THEN arg ELSE NULL

\* handleAddBook with a selected search result; onBookAdd then onClose.
handleAddBookSearch(form) ==
    \E selectedBook \in form.selectedBook, pageCount \in form.pageCount :
        /\ added < MaxAdded \/ some(books, selectedBook.id)
        /\ IF ~validTotalPages(pageCount)
           THEN /\ alert' = PagesAlert
                /\ wrote' = NoWrite
                /\ UNCHANGED <<books, stored, parsedBooks, bulkError, bulkSuccessCount>>
                /\ lastOp' = Op("searchAdd", Recorded(form.record,
                                   [stage |-> "pages", pageCount |-> pageCount]))
           ELSE \E currentPage \in form.currentPage, readingStatus \in form.readingStatus :
                /\ addBook(searchBook(selectedBook, pageCount, readingStatus, currentPage),
                           FALSE, books, TRUE)
                /\ AddModalReset
                /\ lastOp' = Op("searchAdd", Recorded(form.record,
                                   [stage |-> "submitted", selectedBook |-> selectedBook,
                                    pageCount |-> pageCount, currentPage |-> currentPage,
                                    readingStatus |-> readingStatus]))
        /\ Appended
        /\ UNCHANGED <<chat, asking, search, filters, selectedBookDetail, inflight, now>>

SearchAdd ==
    /\ selectedBookDetail = NULL
    /\ handleAddBookSearch(Form)

\* handleAddBook in manual mode; onBookAdd then onClose.
handleAddBookManual(form) ==
    \E pageCount \in form.pageCount :
        /\ added < MaxAdded \/ some(books, <<"manual", now>>)
        /\ IF ~validTotalPages(pageCount)
           THEN /\ alert' = PagesAlert
                /\ wrote' = NoWrite
                /\ UNCHANGED <<books, stored, parsedBooks, bulkError, bulkSuccessCount>>
                /\ lastOp' = Op("manualAdd", Recorded(form.record,
                                   [stage |-> "pages", pageCount |-> pageCount]))
           ELSE \E manualTitle \in form.manualTitle, manualAuthors \in form.manualAuthors :
                IF ~validManual(manualTitle, manualAuthors)
                THEN /\ alert' = RequiredAlert
                     /\ wrote' = NoWrite
                     /\ UNCHANGED <<books, stored, parsedBooks, bulkError, bulkSuccessCount>>
                     /\ lastOp' = Op("manualAdd", Recorded(form.record,
                                        [stage |-> "required", pageCount |-> pageCount,
                                         manualTitle |-> manualTitle,
                                         manualAuthors |-> manualAuthors]))
                ELSE \E manualCategories \in form.manualCategories,
                        currentPage \in form.currentPage,
                        readingStatus \in form.readingStatus :
                     /\ addBook(manualBook(manualTitle, manualAuthors, manualCategories,
                                           pageCount, readingStatus, currentPage, now),
                                FALSE, books, TRUE)
                     /\ AddModalReset
                     /\ lastOp' = Op("manualAdd", Recorded(form.record,
                                        [stage |-> "submitted", pageCount |-> pageCount,
                                         manualTitle |-> manualTitle,
                                         manualAuthors |-> manualAuthors,
                                         manualCategories |-> manualCategories,
                                         currentPage |-> currentPage,
                                         readingStatus |-> readingStatus]))
        /\ Appended
        /\ UNCHANGED <<chat, asking, search, filters, selectedBookDetail, inflight, now>>

ManualAdd ==
    /\ selectedBookDetail = NULL
    /\ handleAddBookManual(Form)

\* handleFileUpload and its reader.onload, for a file of files
handleFileUpload(files, record) ==
    \E k \in 1..Len(files) :
        /\ bulkSuccessCount = 0
        /\ LET r == fileLoaded(files[k], now) IN
           /\ bulkError' = r.bulkError
           /\ parsedBooks' = r.parsedBooks
        /\ bulkSuccessCount' = 0
        /\ lastOp' = Op("fileUpload", Recorded(record, files[k]))
        /\ alert' = ""
        /\ wrote' = NoWrite
        /\ UNCHANGED <<chat, asking, search, filters, books, stored, selectedBookDetail, inflight, now, added>>

FileUpload ==
    /\ selectedBookDetail = NULL
    /\ handleFileUpload(Files, FALSE)

\* handleBulkImport (the Import button is enabled while parsedBooks is not empty)
handleBulkImport ==
    LET newBooks == bulkNewBooks(parsedBooks, books) IN
    /\ IF Len(newBooks) > 0
       THEN /\ addBook(newBooks, TRUE, books, TRUE)
            /\ bulkSuccessCount' = Len(newBooks)
       ELSE /\ bulkSuccessCount' = 0
            /\ alert' = ""
            /\ wrote' = NoWrite
            /\ UNCHANGED <<books, stored>>
    /\ UNCHANGED <<parsedBooks, bulkError>>

BulkImport ==
    /\ selectedBookDetail = NULL
    /\ parsedBooks # <<>>
    /\ bulkSuccessCount = 0
    /\ handleBulkImport
    /\ Appended
    /\ added' <= MaxAdded
    /\ lastOp' = Op("bulkImport", NULL)
    /\ UNCHANGED <<chat, asking, search, filters, selectedBookDetail, inflight, now>>

\* onClose of the AddBookModal: its state is dropped
CloseAddModal ==
    /\ selectedBookDetail = NULL
    /\ ~AddModalIdle
    /\ AddModalReset
    /\ lastOp' = Op("closeAddModal", NULL)
    /\ alert' = ""
    /\ wrote' = NoWrite
    /\ UNCHANGED <<chat, asking, search, filters, books, stored, selectedBookDetail, inflight, now, added>>

\* onCardClick: setSelectedBookDetail(book)
OpenDetail ==
    \E i \in 1..Len(books) :
        /\ selectedBookDetail = NULL
        /\ AddModalIdle
        /\ selectedBookDetail' = books[i]
        /\ lastOp' = Op("openDetail", NULL)
        /\ alert' = ""
        /\ wrote' = NoWrite
        /\ UNCHANGED <<chat, asking, search, filters, books, stored, parsedBooks, bulkError, bulkSuccessCount,
                       inflight, now, added>>

\* onClose of the BookDetailModal: setSelectedBookDetail(null).  The view is
\* unmounted; every call it has in flight outlives it.
CloseDetail ==
    /\ selectedBookDetail # NULL
    /\ selectedBookDetail' = NULL
    /\ inflight' = {[c EXCEPT !.dismissed = TRUE] : c \in inflight}
    /\ lastOp' = Op("closeDetail", NULL)
    /\ alert' = ""
    /\ wrote' = NoWrite
    /\ UNCHANGED <<chat, asking, search, filters, books, stored, parsedBooks, bulkError, bulkSuccessCount, now, added>>

\* handleStatusUpdate, run from the render whose Library is render
handleStatusUpdate(currentStatus, currentPageInput, render) ==
    /\ updateBook(statusUpdated(selectedBookDetail, currentStatus, currentPageInput),
                  render, TRUE)
    /\ lastOp' = Op("statusUpdate", NULL)
    /\ UNCHANGED <<chat, asking, search, filters, parsedBooks, bulkError, bulkSuccessCount, inflight, now, added>>

StatusUpdate ==
    \E currentStatus \in StatusInputs, currentPageInput \in CurrentPageInputs :
        /\ selectedBookDetail # NULL
        /\ handleStatusUpdate(currentStatus, currentPageInput, books)

Next ==
    \/ Tick
    \/ SearchAdd
    \/ ManualAdd
    \/ FileUpload
    \/ BulkImport
    \/ CloseAddModal
    \/ OpenDetail
    \/ CloseDetail
    \/ StatusUpdate

Spec == Init /\ [][Next]_vars

----------------------------------------------------------------------------
(* SpecImport: the bulk tab of the AddBookModal alone, with more files; the *)
(* file of an upload is kept in lastOp.                                      *)

ImportFiles ==
    Files \o
    << \* an empty file, as .csv and as .xml
      [ext |-> "csv", text |-> <<>>],
      [ext |-> "xml", text |-> <<>>],
      \* a header line followed by a blank line
      [ext |-> "csv", text |-> << CsvHeader, << <<WS>> >> >>],
      \* CSV content under another extension
      [ext |-> "txt",
       text |-> << CsvHeader,
                   CsvLine(<<"Dune">>, <<"Frank">>, <<"3">>, <<"Okudum">>, <<"3">>) >>],
      \* a row and a node without a status
      [ext |-> "csv",
       text |-> << CsvHeader,
                   CsvLine(<<"Emma">>, <<"Jane">>, <<"3">>, <<>>, <<"0">>) >>],
      [ext |-> "xml",
       text |-> << XmlNode(<<"Dune">>, <<"Frank">>, <<"3">>, <<>>, <<"0">>) >>],
      \* rows without a title, with one field only and without an author
      \* between two complete rows
      [ext |-> "csv",
       text |-> << CsvHeader,
                   CsvLine(<<"Dune">>, <<"Frank">>, <<"3">>, <<"Okudum">>, <<"3">>),
                   CsvLine(<<WS>>, <<"Jane">>, <<"3">>, <<"Okudum">>, <<"3">>),
                   << <<"Emma">> >>,
                   CsvLine(<<"Emma">>, <<>>, <<"3">>, <<"Okudum">>, <<"3">>),
                   CsvLine(<<"Dune">>, <<"Jane">>, <<"3">>, <<"Okuyorum">>, <<"1">>) >>],
      \* the author column under its alias
      [ext |-> "csv",
       text |-> << << <<"Title">>, <<"Authors">> >>,
                   << <<"Emma">>, <<"Jane">> >> >>] >>

ImportFileUpload ==
    /\ selectedBookDetail = NULL
    /\ handleFileUpload(ImportFiles, TRUE)

NextImport ==
    \/ Tick
    \/ ImportFileUpload
    \/ BulkImport
    \/ CloseAddModal

SpecImport == Init /\ [][NextImport]_vars

----------------------------------------------------------------------------
(* SpecForm: the search and manual tabs of the AddBookModal alone, with more *)
(* values typed in the fields; the values of a step are kept in lastOp.      *)

WideForm ==
    [selectedBook |-> SearchResults,
     pageCount |-> {<<>>, <<"abc">>, <<"0">>, <<"-1">>, <<"1">>, <<"3">>},
     currentPage |-> {<<"9">>},
     readingStatus |-> {Reading},
     manualTitle |-> {<<>>, <<WS>>, <<"Emma">>},
     manualAuthors |-> {<<>>, <<WS>>, <<Comma>>, <<"Jane">>},
     manualCategories |-> {<<>>, <<Comma>>, <<"Fiction">>},
     record |-> TRUE]

FormSearchAdd ==
    /\ selectedBookDetail = NULL
    /\ handleAddBookSearch(WideForm)

FormManualAdd ==
    /\ selectedBookDetail = NULL
    /\ handleAddBookManual(WideForm)

NextForm ==
    \/ Tick
    \/ FormSearchAdd
    \/ FormManualAdd

SpecForm == Init /\ [][NextForm]_vars

----------------------------------------------------------------------------
(* SpecFilter: the filter bar of App over every Library of a small domain.  *)

MaxShelf == 2       \* longest Library the filters are applied to

\* Books that differ in every field a filter reads; an author shared by two.
FilterBooks ==
    { Book(<<"g1">>, <<"Dune">>, << <<"Frank">> >>, <<"Ace">>, << <<"Fiction">> >>,
           3, <<"ph">>, Read, 3),
      Book(<<"g2">>, <<"Emma">>, << <<"Jane">>, <<"Frank">> >>, UnknownPublisher,
           << Uncategorized >>, 3, <<"ph">>, Reading, 1),
      Book(<<"g3">>, <<"dune">>, <<>>, <<"Ace">>, <<>>, 0, <<"ph">>, PlanningToRead, 0) }

\* What the user may type or select in each field of the filter bar.
FilterInputs ==
    [title |-> {<<>>, <<"Dune">>},
     author |-> {<<>>, <<"frank">>, <<Comma, WS, "Frank">>},
     publisher |-> {<<>>, <<"ace">>},
     category |-> {<<>>, <<"Fiction">>},
     readingStatus |-> {"all", Read, Reading}]

InitFilter ==
    /\ books \in SeqsUpTo(FilterBooks, MaxShelf)
    /\ stored = Item(JSONstringify(books))
    /\ InitCommon

FilterUnchanged ==
    UNCHANGED <<chat, asking, search, books, stored, selectedBookDetail, parsedBooks, bulkError,
                bulkSuccessCount, inflight, now, added>>

\* handleFilterChange: setFilters(prev => ({...prev, [name]: value}))
FilterChange ==
    \E name \in DOMAIN FilterInputs :
        \E value \in FilterInputs[name] :
            /\ filters' = [filters EXCEPT ![name] = value]
            /\ lastOp' = Op("filterChange", NULL)
            /\ alert' = ""
            /\ wrote' = NoWrite
            /\ FilterUnchanged

\* clearFilters: setFilters(initialFilters)
ClearFilters ==
    /\ filters' = initialFilters
    /\ lastOp' = Op("clearFilters", NULL)
    /\ alert' = ""
    /\ wrote' = NoWrite
    /\ FilterUnchanged

NextFilter == FilterChange \/ ClearFilters

SpecFilter == InitFilter /\ [][NextFilter]_vars

----------------------------------------------------------------------------
(* SpecStats: the StatsPanel over the Library, as books are added and their *)
(* status is updated in the detail view.                                     *)

\* Books for the statistics: every currentPage is within 0..pageCount; two
\* categories that tie, the placeholder category, an empty category, a book
\* without pages and a book that is only planned.
StatsBooks ==
    { Book(<<"s1">>, <<"Dune">>, << <<"Frank">> >>, UnknownPublisher,
           << <<"Fiction">> >>, 40, <<"ph">>, Reading, 23),
      Book(<<"s2">>, <<"Emma">>, << <<"Jane">> >>, UnknownPublisher,
           << <<"History">>, <<>> >>, 160, <<"ph">>, Read, 160),
      Book(<<"s3">>, <<"Ulysses">>, << <<"James">> >>, UnknownPublisher,
           << Uncategorized >>, 300, <<"ph">>, PlanningToRead, 0),
      Book(<<"s4">>, <<"Hamlet">>, << <<"William">> >>, UnknownPublisher,
           << <<"History">>, <<"Fiction">> >>, 0, <<"ph">>, Dropped, 0) }

InitStats ==
    /\ books \in {bs \in SeqsUpTo(StatsBooks, MaxShelf) :
                     \A i, j \in 1..Len(bs) : i # j => bs[i].id # bs[j].id}
    /\ stored = Item(JSONstringify(books))
    /\ InitCommon

StatsAdd ==
    \E book \in StatsBooks :
        /\ selectedBookDetail = NULL
        /\ Len(books) < MaxShelf
        /\ addBook(book, FALSE, books, TRUE)
        /\ lastOp' = Op("addOne", NULL)
        /\ UNCHANGED selectedBookDetail
        /\ UiUnchanged

NextStats ==
    \/ StatsAdd
    \/ OpenDetail
    \/ CloseDetail
    \/ StatusUpdate

SpecStats == InitStats /\ [][NextStats]_vars

----------------------------------------------------------------------------
(* SpecAsync: the detail view of the version that generates covers          *)
(* (handleGenerateCover awaits generateBookCover).  Starting the call and   *)
(* its continuation are two steps; the continuation runs with the book and  *)
(* the updateBook of the render that started the call.                      *)

MaxInFlight == 1    \* generateBookCover calls in flight at a time

AiImages == {<<"data:image/png">>}
GenerateAlert == "Failed to generate cover. Please try again."
AsyncStatusInputs == {Read, Reading}
AsyncPageInputs == {<<"2">>}

\* The Library of the session: two books added from search results.
AsyncLibrary ==
    <<searchBook(CHOOSE r \in SearchResults : r.id = <<"g1">>, <<"3">>, Read, <<>>),
      searchBook(CHOOSE r \in SearchResults : r.id = <<"g2">>, <<"3">>, PlanningToRead, <<>>)>>

InitAsync ==
    /\ books = AsyncLibrary
    /\ stored = Item(JSONstringify(AsyncLibrary))
    /\ InitCommon

\* A call in flight: the book prop and the Library (the storedValue behind
\* onUpdateBook) of the render that started it, and whether the view that
\* started it was closed since.
Call(book, storedValue) == [book |-> book, storedValue |-> storedValue, dismissed |-> FALSE]

\* handleGenerateCover up to its await; the button is disabled while this
\* view has a call in flight (isGenerating).
GenerateCover ==
    /\ selectedBookDetail # NULL
    /\ Cardinality(inflight) < MaxInFlight
    /\ \A c \in inflight : c.dismissed
    /\ inflight' = inflight \cup {Call(selectedBookDetail, books)}
    /\ lastOp' = Op("generateCover", NULL)
    /\ alert' = ""
    /\ wrote' = NoWrite
    /\ UNCHANGED <<chat, asking, search, filters, books, stored, selectedBookDetail, parsedBooks, bulkError,
                   bulkSuccessCount, now, added>>

\* generateBookCover resolved: onUpdateBook({...book, imageLinks: {thumbnail: newImage}})
GenerateResolved ==
    \E c \in inflight, newImage \in AiImages :
        /\ updateBook([c.book EXCEPT !.thumbnail = newImage], c.storedValue, TRUE)
        /\ inflight' = inflight \ {c}
        /\ lastOp' = Op("generateResolved", c)
        /\ UNCHANGED <<chat, asking, search, filters, parsedBooks, bulkError, bulkSuccessCount, now, added>>

\* generateBookCover rejected: the catch block alerts
GenerateRejected ==
    \E c \in inflight :
        /\ alert' = GenerateAlert
        /\ wrote' = NoWrite
        /\ inflight' = inflight \ {c}
        /\ lastOp' = Op("generateRejected", c)
        /\ UNCHANGED <<chat, asking, search, filters, books, stored, selectedBookDetail, parsedBooks, bulkError,
                       bulkSuccessCount, now, added>>

AsyncStatusUpdate ==
    \E currentStatus \in AsyncStatusInputs, currentPageInput \in AsyncPageInputs :
        /\ selectedBookDetail # NULL
        /\ handleStatusUpdate(currentStatus, currentPageInput, books)

NextAsync ==
    \/ OpenDetail
    \/ CloseDetail
    \/ AsyncStatusUpdate
    \/ GenerateCover
    \/ GenerateResolved
    \/ GenerateRejected

SpecAsync == InitAsync /\ [][NextAsync]_vars

----------------------------------------------------------------------------
(* SpecCover: the three ways a cover is changed from the detail view (a    *)
(* pasted URL, a confirmed web-search image, a generated cover that        *)
(* resolves later), next to status updates, dismissals and adds.           *)

UrlTokens == {"http://new"}
UrlInputs == {<<WS>>, <<"not a url">>, <<WS, "http://new">>}
WebImages == {<<"http://web">>}
UrlAlert == "Please enter a valid URL."

\* new URL(imageUrl) does not throw; the parser strips surrounding spaces
validURL(imageUrl) == Len(trim(imageUrl)) = 1 /\ trim(imageUrl)[1] \in UrlTokens

\* The Library of the session: one book, so that one more can be added.
InitCover ==
    /\ books = <<AsyncLibrary[1]>>
    /\ stored = Item(JSONstringify(books))
    /\ InitCommon

CoverUnchanged ==
    UNCHANGED <<chat, asking, search, filters, parsedBooks, bulkError, bulkSuccessCount,
                inflight, now, added>>

\* handleUpdateCoverFromUrl
UpdateCoverFromUrl ==
    \E imageUrl \in UrlInputs :
        /\ selectedBookDetail # NULL
        /\ IF trim(imageUrl) = <<>>
           THEN /\ alert' = ""
                /\ wrote' = NoWrite
                /\ UNCHANGED <<books, stored, selectedBookDetail>>
           ELSE IF validURL(imageUrl)
           THEN updateBook([selectedBookDetail EXCEPT !.thumbnail = imageUrl], books, TRUE)
           ELSE /\ alert' = UrlAlert
                /\ wrote' = NoWrite
                /\ UNCHANGED <<books, stored, selectedBookDetail>>
        /\ lastOp' = Op("coverFromUrl", [book |-> selectedBookDetail, imageUrl |-> imageUrl])
        /\ CoverUnchanged

\* handleConfirmWebImage, with the image picked from the search results
ConfirmWebImage ==
    \E selectedWebImage \in WebImages :
        /\ selectedBookDetail # NULL
        /\ updateBook([selectedBookDetail EXCEPT !.thumbnail = selectedWebImage], books, TRUE)
        /\ lastOp' = Op("confirmWebImage", [book |-> selectedBookDetail,
                                            imageUrl |-> selectedWebImage])
        /\ CoverUnchanged

\* handleAddBook with a selected search result, from the add-book view
CoverSearchAdd ==
    /\ selectedBookDetail = NULL
    /\ handleAddBookSearch(Form)

NextCover ==
    \/ OpenDetail
    \/ CloseDetail
    \/ AsyncStatusUpdate
    \/ GenerateCover
    \/ GenerateResolved
    \/ GenerateRejected
    \/ UpdateCoverFromUrl
    \/ ConfirmWebImage
    \/ CoverSearchAdd

SpecCover == InitCover /\ [][NextCover]_vars

----------------------------------------------------------------------------
(* SpecChat: the assistant panel over an empty or a filled Library.        *)
(* Sending a message and the continuation after askBookworm are two steps; the     *)
(* continuation runs with the newMessages of the render that sent.  App    *)
(* mounts the panel while isChatOpen; a continuation of a panel that was   *)
(* unmounted since sets the state of that panel, which no longer shows.    *)

MaxMessages == 5    \* a message is sent while the log has fewer entries than this
MaxAsking == 2      \* askBookworm calls in flight at a time, unmounted panels included

ChatInputs == {<<WS>>, <<WS, "Hi">>}
AskUpstream == {[throws |-> FALSE, text |-> <<"Sure">>], [throws |-> TRUE, text |-> <<>>]}

InitChat ==
    /\ books \in {<<>>, AsyncLibrary}
    /\ stored = Item(JSONstringify(books))
    /\ InitCommon

ChatUnchanged ==
    UNCHANGED <<search, filters, books, stored, selectedBookDetail, parsedBooks, bulkError,
                bulkSuccessCount, inflight, now, added>>

\* A call in flight: the query and library it was given, the newMessages of
\* the render that sent, and whether the panel that sent was unmounted since.
AskCall(query, library, sent) ==
    [query |-> query, library |-> library, newMessages |-> sent, unmounted |-> FALSE]

\* The chat button while the panel is closed: setIsChatOpen(!isChatOpen)
OpenChat ==
    /\ chat = NULL
    /\ chat' = initialChat
    /\ lastOp' = Op("openChat", NULL)
    /\ alert' = ""
    /\ wrote' = NoWrite
    /\ UNCHANGED asking
    /\ ChatUnchanged

\* The chat button while the panel is open, or onClose
CloseChat ==
    /\ chat # NULL
    /\ chat' = NULL
    /\ asking' = {[c EXCEPT !.unmounted = TRUE] : c \in asking}
    /\ lastOp' = Op("closeChat", NULL)
    /\ alert' = ""
    /\ wrote' = NoWrite
    /\ ChatUnchanged

\* onChange of the input, which is disabled while isLoading
ChangeInput ==
    \E value \in ChatInputs :
        /\ chat # NULL
        /\ ~chat.isLoading
        /\ chat' = [chat EXCEPT !.userInput = value]
        /\ lastOp' = Op("changeInput", value)
        /\ alert' = ""
        /\ wrote' = NoWrite
        /\ UNCHANGED asking
        /\ ChatUnchanged

\* handleSendMessage up to its await
SendMessage ==
    /\ chat # NULL
    /\ Len(chat.messages) < MaxMessages
    /\ Cardinality(asking) < MaxAsking
    /\ IF sendAccepted(chat)
       THEN /\ chat' = sendStarted(chat)
            /\ asking' = asking \cup {AskCall(trim(chat.userInput), books, newMessages(chat))}
       ELSE UNCHANGED <<chat, asking>>
    /\ lastOp' = Op("sendMessage", chat.userInput)
    /\ alert' = ""
    /\ wrote' = NoWrite
    /\ ChatUnchanged

\* askBookworm settled: handleSendMessage after its await
AskSettled ==
    \E call \in asking, upstream \in AskUpstream :
        /\ IF call.unmounted
           THEN UNCHANGED chat
           ELSE chat' = sendSettled(chat, call.newMessages, askBookworm(upstream))
        /\ asking' = asking \ {call}
        /\ lastOp' = Op("askSettled", [call |-> call, upstream |-> upstream])
        /\ alert' = ""
        /\ wrote' = NoWrite
        /\ ChatUnchanged

NextChat ==
    \/ OpenChat
    \/ CloseChat
    \/ ChangeInput
    \/ SendMessage
    \/ AskSettled

SpecChat == InitChat /\ [][NextChat]_vars

----------------------------------------------------------------------------
(* SpecSearch: the search tab of the add-book view.  Submitting the form   *)
(* and the continuation after searchBooks are two steps.                    *)

TitleQueries == {<<>>, <<WS>>, <<"Dune">>, <<"Emma">>}
AuthorQueries == {<<>>, <<"Frank">>}
SearchItems == {<<>>} \cup {<<r>> : r \in SearchResults} \cup {<<r, q>> : r, q \in SearchResults}
SearchUpstream ==
    {[throws |-> FALSE, items |-> Some(items)] : items \in SearchItems}
        \cup {[throws |-> FALSE, items |-> Undefined], [throws |-> TRUE, items |-> Undefined]}

SearchUnchanged ==
    UNCHANGED <<chat, asking, filters, books, stored, selectedBookDetail, parsedBooks,
                bulkError, bulkSuccessCount, inflight, now, added>>

\* onChange of the title field
ChangeTitleQuery ==
    \E value \in TitleQueries :
        /\ search' = [search EXCEPT !.titleQuery = value]
        /\ lastOp' = Op("changeTitleQuery", value)
        /\ alert' = ""
        /\ wrote' = NoWrite
        /\ SearchUnchanged

\* onChange of the author field
ChangeAuthorQuery ==
    \E value \in AuthorQueries :
        /\ search' = [search EXCEPT !.authorQuery = value]
        /\ lastOp' = Op("changeAuthorQuery", value)
        /\ alert' = ""
        /\ wrote' = NoWrite
        /\ SearchUnchanged

\* handleSearch up to its await; the submit button is disabled while isLoading
Search ==
    /\ ~search.isLoading
    /\ IF trim(search.titleQuery) = <<>>
       THEN UNCHANGED search
       ELSE search' = searchStarted(search)
    /\ lastOp' = Op("search", search.titleQuery)
    /\ alert' = ""
    /\ wrote' = NoWrite
    /\ SearchUnchanged

\* searchBooks settled: handleSearch after its await
SearchSettled ==
    \E upstream \in SearchUpstream :
        /\ search.isLoading
        /\ search' = searchSettled(search, searchBooks(upstream))
        /\ lastOp' = Op("searchSettled", upstream)
        /\ alert' = ""
        /\ wrote' = NoWrite
        /\ SearchUnchanged

NextSearch ==
    \/ ChangeTitleQuery
    \/ ChangeAuthorQuery
    \/ Search
    \/ SearchSettled

SpecSearch == InitAsync /\ [][NextSearch]_vars

----------------------------------------------------------------------------
(* Claims about the state manager, checked under SpecApi *)

\* C1 -- Dedup invariant: starting from a Library with pairwise distinct ids,
\* after every sequence of single adds and bulk adds (for every input batch)
\* no two entries of the Library share an id.
C1_NoTwoEntriesShareId ==
    \A i, j \in 1..Len(books) : i # j => books[i].id # books[j].id

\* C4 -- Single add: with an id already present addBook(book) raises the
\* duplicate alert and leaves the Library and the snapshot unchanged; with a
\* new id it appends the book as the last entry, keeps every earlier entry, and
\* writes the new Library to the store (the snapshot is the new Library
\* whenever that write succeeds).
C4_SingleAdd ==
    [][lastOp'.op = "addOne" =>
        LET book == lastOp'.arg IN
        IF \E i \in 1..Len(books) : books[i].id = book.id
        THEN /\ alert' = DuplicateAlert
             /\ books' = books
             /\ stored' = stored
        ELSE /\ alert' = ""
             /\ Len(books') = Len(books) + 1
             /\ books'[Len(books')] = book
             /\ \A i \in 1..Len(books) : books'[i] = books[i]
             /\ wrote'.calls = 1
             /\ wrote'.ok => stored' = Item(JSONstringify(books'))
      ]_vars

C4_Witness ==
    /\ lastOp.op = "addOne"
    /\ alert = DuplicateAlert
    /\ Len(books) >= 1

\* C5 -- updateBook(b) for an id present in the Library puts b in the place of
\* the entry with that id; the length, the order and every entry with another
\* id are unchanged.
C5_UpdateInPlace ==
    [][(lastOp'.op = "update" /\ \E i \in 1..Len(books) : books[i].id = lastOp'.arg.id) =>
        LET b == lastOp'.arg IN
        /\ Len(books') = Len(books)
        /\ \A i \in 1..Len(books) :
              /\ books[i].id = b.id => books'[i] = b
              /\ books[i].id # b.id => books'[i] = books[i]
      ]_vars

C5_Witness ==
    /\ lastOp.op = "update"
    /\ Len(books) = 2
    /\ books[1] = lastOp.arg
    /\ books[2].id # lastOp.arg.id

\* C6 -- updateBook(b) for an id that is not in the Library fails with a
\* not-found outcome (a failure is signalled) and leaves the Library unchanged.
C6_UpdateAbsentFails ==
    [][(lastOp'.op = "update" /\ ~\E i \in 1..Len(books) : books[i].id = lastOp'.arg.id) =>
        /\ alert' # ""
        /\ books' = books
      ]_vars

\* C7 -- Idempotence of update: updateBook(b) applied a second time in a row
\* leaves the Library as the first application left it, and the snapshot too
\* when the two store writes fare alike.
C7_UpdateIdempotent ==
    [][(lastOp'.op = "update" /\ lastOp'.again) =>
        /\ books' = books
        /\ (wrote'.ok = wrote.ok) => stored' = stored
      ]_vars

C7_Witness ==
    /\ lastOp.op = "update"
    /\ lastOp.again
    /\ \E i \in 1..Len(books) : books[i] = lastOp.arg
    /\ \E i \in 1..Len(books) : books[i].id # lastOp.arg.id

\* C9 -- A bulk add is all-or-nothing and ordered: in one step the Library
\* becomes the Library before it followed by the surviving candidates (those
\* whose id the Library did not hold) in input order, with one store write for
\* the whole batch (none when no candidate survives).
Survivors(batch, lib) ==
    LET keep(i) == ~\E j \in 1..Len(lib) : lib[j].id = batch[i].id
        RECURSIVE from(_)
        from(i) == IF i > Len(batch) THEN <<>>
                   ELSE (IF keep(i) THEN <<batch[i]>> ELSE <<>>) \o from(i + 1)
    IN from(1)

C9_BulkAddAtomic ==
    [][lastOp'.op = "addMany" =>
        LET surv == Survivors(lastOp'.arg, books) IN
        /\ books' = books \o surv
        /\ wrote'.calls = (IF surv = <<>> THEN 0 ELSE 1)
        /\ (surv = <<>>) => stored' = stored
        /\ (surv # <<>> /\ wrote'.ok) => stored' = Item(JSONstringify(books \o surv))
      ]_vars

C9_Witness ==
    /\ lastOp.op = "addMany"
    /\ Len(lastOp.arg) = 2
    /\ lastOp.arg[1].id # lastOp.arg[2].id
    /\ books = lastOp.arg
    /\ wrote.calls = 1

----------------------------------------------------------------------------
(* Claims about the application, checked under Spec *)

\* C2 -- Status/page invariant: in every reachable state, for every Book of
\* the Library, whichever path put it there (search add, manual add, CSV/XML
\* bulk import, status update): status Read implies currentPage = pageCount;
\* status Unread or PlanningToRead implies currentPage = 0; status Reading or
\* Dropped implies 0 <= currentPage <= pageCount.
C2_StatusPageInvariant ==
    \A i \in 1..Len(books) :
        LET b == books[i] IN
        /\ b.readingStatus = Read => b.currentPage = b.pageCount
        /\ b.readingStatus \in {Unread, PlanningToRead} => b.currentPage = 0
        /\ b.readingStatus \in {Reading, Dropped} =>
              (0 <= b.currentPage /\ b.currentPage <= b.pageCount)

\* Whether the import step appended candidate k of the parsed file.
ImportAppended(k) ==
    \E i \in (Len(books) + 1)..Len(books') : books'[i] = parsedBooks[k]

\* Whether the Library holds a book of the candidate's title and first author,
\* case ignored (two missing first authors count as equal).
SameTitleAndFirstAuthor(lib, cand) ==
    \E i \in 1..Len(lib) :
        /\ toLowerCase(lib[i].title) = toLowerCase(cand.title)
        /\ \/ Len(lib[i].authors) = 0 /\ Len(cand.authors) = 0
           \/ /\ Len(lib[i].authors) > 0
              /\ Len(cand.authors) > 0
              /\ toLowerCase(lib[i].authors[1]) = toLowerCase(cand.authors[1])

\* C8, as stated -- The bulk-import commit dedups by id only: a parsed
\* candidate is left out of the Library if and only if its id already exists
\* in the Library (so a candidate with an existing title and first author but
\* a new id is still added).
C8_DedupByIdOnly ==
    [][lastOp'.op = "bulkImport" =>
        \A k \in 1..Len(parsedBooks) :
            ~ImportAppended(k) <=> (\E i \in 1..Len(books) : books[i].id = parsedBooks[k].id)
      ]_vars

\* C8, amended -- The bulk-import commit leaves a parsed candidate out of the
\* Library if and only if its id already exists in the Library or the Library
\* holds a book with the same title and the same first author, case ignored;
\* a candidate with a new id but an existing title and first author is not
\* added.
C8_DedupByIdOrTitleAndAuthor ==
    [][lastOp'.op = "bulkImport" =>
        \A k \in 1..Len(parsedBooks) :
            ~ImportAppended(k) <=>
                \/ \E i \in 1..Len(books) : books[i].id = parsedBooks[k].id
                \/ SameTitleAndFirstAuthor(books, parsedBooks[k])
      ]_vars

\* An import that appended one candidate and left out another whose id is new
\* but whose title and first author the Library already held.
C8_Witness ==
    /\ lastOp.op = "bulkImport"
    /\ bulkSuccessCount = 1
    /\ \E k \in 1..Len(parsedBooks) :
          /\ ~\E i \in 1..Len(books) : books[i].id = parsedBooks[k].id
          /\ SameTitleAndFirstAuthor(books, parsedBooks[k])

\* C10 -- Persistence after every mutation: with store writes succeeding, the
\* Library changes only in a step of an add or update handler that writes the
\* snapshot, after every such write the snapshot is the Library, and whenever
\* a snapshot is stored it is the Library.
C10_PersistedAfterEveryMutation ==
    /\ [](stored.kind = "item" => stored.value = JSONstringify(books))
    /\ [][/\ books' # books =>
              /\ lastOp'.op \in {"searchAdd", "manualAdd", "bulkImport", "statusUpdate"}
              /\ wrote'.calls = 1
          /\ wrote'.calls > 0 => stored' = Item(JSONstringify(books'))
         ]_vars

C10_Witness ==
    /\ lastOp.op = "statusUpdate"
    /\ wrote.calls = 1
    /\ Len(books) = 2
    /\ books[2] = selectedBookDetail
    /\ stored = Item(JSONstringify(books))

----------------------------------------------------------------------------
(* Claims about calls in flight, checked under SpecAsync *)

\* C3 -- Cancellation: if the book detail view is dismissed (onClose) while
\* an AI cover call started from it is in flight, the call's result is
\* discarded: the step in which it resolves leaves the Library, the stored
\* snapshot and the selected-detail state as they were.
C3_DismissedResultDiscarded ==
    [][(lastOp'.op = "generateResolved" /\ lastOp'.arg.dismissed) =>
        /\ books' = books
        /\ stored' = stored
        /\ selectedBookDetail' = selectedBookDetail
      ]_vars

----------------------------------------------------------------------------
(* Claims about the state manager when the store rejects a write (SpecApi) *)

\* C11 -- A store write failure never aborts the user-visible action: when
\* setItem throws during an add or an update, nothing is raised to the caller
\* (no alert, and updateBook still goes on to select the updated book), the
\* snapshot keeps its earlier content, and the in-memory Library holds the
\* result of the mutation.
C11_WriteFailureKeepsMutation ==
    [][(wrote'.calls > 0 /\ ~wrote'.ok) =>
        LET arg == lastOp'.arg IN
        /\ alert' = ""
        /\ stored' = stored
        /\ lastOp'.op = "addOne" => books' = Append(books, arg)
        /\ lastOp'.op = "addMany" => books' = books \o Survivors(arg, books)
        /\ lastOp'.op = "update" =>
              /\ books' = [i \in 1..Len(books) |->
                              IF books[i].id = arg.id THEN arg ELSE books[i]]
              /\ selectedBookDetail' = arg
      ]_vars

C11_Witness ==
    /\ lastOp.op = "addOne"
    /\ wrote.calls = 1 /\ ~wrote.ok
    /\ stored = Absent
    /\ Len(books) = 1 /\ books[1] = lastOp.arg

----------------------------------------------------------------------------
(* Claims about the application (Spec), continued *)

\* C12 -- Store load falls back to the default: at startup, when the key is
\* absent or its content does not parse, the Library is the supplied default
\* (the empty Library) and nothing is raised; when the content is well formed
\* the Library is the stored value.
C12_LoadFallsBack ==
    lastOp.op = "init" =>
        /\ alert = ""
        /\ stored.kind \in {"absent", "corrupt"} => books = <<>>
        /\ stored.kind = "item" => books = stored.value

C12_Witness ==
    /\ lastOp.op = "init"
    /\ stored = Corrupt
    /\ books = <<>>

----------------------------------------------------------------------------
(* Claims about the bulk import (SpecImport) *)

\* The files whose parse fails: an extension other than .csv and .xml, an
\* empty file, a CSV text with fewer than two lines that are not blank.
FailedFile(file) ==
    \/ file.ext \notin {"csv", "xml"}
    \/ file.text = <<>>
    \/ /\ file.ext = "csv"
       /\ Len(SelectSeq(file.text, LAMBDA line : ~isBlankLine(line))) < 2

\* C13 -- A failed bulk file parse mutates nothing: for an unsupported file
\* extension, an empty file, or a CSV with no data or header line, the upload
\* ends with an error message set and an empty candidate list, the Library and
\* the stored snapshot unchanged; while the error is shown no step (an Import
\* included) changes the Library or the snapshot.
C13_FailedParseMutatesNothing ==
    /\ [](bulkError # "" => parsedBooks = <<>>)
    /\ [][(lastOp'.op = "fileUpload" /\ FailedFile(lastOp'.arg)) =>
            /\ bulkError' # ""
            /\ parsedBooks' = <<>>
            /\ books' = books
            /\ stored' = stored
         ]_vars
    /\ [][bulkError # "" => (books' = books /\ stored' = stored)]_vars

C13_Witness ==
    /\ lastOp.op = "fileUpload"
    /\ lastOp.arg.ext = "txt" /\ lastOp.arg.text # <<>>
    /\ bulkError = UnsupportedError
    /\ parsedBooks = <<>>
    /\ Len(books) = 1

----------------------------------------------------------------------------
(* Claims about the add form (SpecForm) *)

\* C14 -- Manual-add rejection: a manual add whose title is empty or white
\* space only, or whose author input yields an empty author list, is rejected
\* with the required-fields alert and leaves the Library unchanged.
C14_ManualAddRejected ==
    [][(/\ lastOp'.op = "manualAdd"
        /\ lastOp'.arg.stage # "pages"
        /\ \/ trim(lastOp'.arg.manualTitle) = <<>>
           \/ filterBoolean(mapTrim(split(lastOp'.arg.manualAuthors))) = <<>>) =>
        /\ alert' = RequiredAlert
        /\ books' = books
      ]_vars

\* C15 -- In the manual and search add paths a total-pages input that is
\* missing, not a number, zero or negative rejects the add with the
\* total-pages alert and leaves the Library and the snapshot unchanged; every
\* book added through these two paths has pageCount >= 1.
C15_TotalPagesValidated ==
    /\ [](\A i \in 1..Len(books) : books[i].pageCount >= 1)
    /\ [][lastOp'.op \in {"searchAdd", "manualAdd"} =>
            LET pageCount == lastOp'.arg.pageCount
                number == IF pageCount = <<>> THEN NaN ELSE numberOfToken(pageCount[1])
            IN /\ (pageCount = <<>> \/ isNaN(number) \/ number <= 0) =>
                     /\ alert' = PagesAlert
                     /\ books' = books
                     /\ stored' = stored
               /\ Len(books') > Len(books) => books'[Len(books')].pageCount >= 1
         ]_vars

C15_Witness ==
    /\ lastOp.op = "manualAdd"
    /\ lastOp.arg.stage = "pages"
    /\ lastOp.arg.pageCount = <<"-1">>
    /\ alert = PagesAlert
    /\ \E i \in 1..Len(books) : books[i].id = <<"manual", 0>> /\ books[i].pageCount = 1

----------------------------------------------------------------------------
(* Claims about the books of the Library (Spec) *)

\* C16 -- Every Book in the Library, in every reachable state and whichever
\* path created it (search result, manual form, CSV row, XML node), has a
\* non-empty authors sequence and a non-empty categories sequence.
C16_AuthorsAndCategoriesNonEmpty ==
    \A i \in 1..Len(books) :
        /\ Len(books[i].authors) > 0
        /\ Len(books[i].categories) > 0

\* C17 -- Every Book in the Library has a non-negative integer pageCount in
\* every reachable state.
C17_PageCountNonNegative ==
    \A i \in 1..Len(books) : books[i].pageCount \in Nat

\* C19 -- Synthesized ids are unique even when the clock does not advance:
\* a manual add is never refused as a duplicate of an earlier entry, and no
\* candidate of a bulk import that differs in title or first author from
\* every entry of the Library carries the id of one of them.
C19_SynthesizedIdsUnique ==
    [][/\ lastOp'.op = "manualAdd" => alert' # DuplicateAlert
       /\ lastOp'.op = "bulkImport" =>
             \A k \in 1..Len(parsedBooks) :
                 ~SameTitleAndFirstAuthor(books, parsedBooks[k]) =>
                     \A i \in 1..Len(books) : books[i].id # parsedBooks[k].id
      ]_vars

----------------------------------------------------------------------------
(* Claims about the bulk import (SpecImport), continued *)

\* The text of the status cell of the row or node that got index i: the
\* fourth field of line i + 1 of the CSV lines that are not blank, quotes and
\* surrounding white space removed; the status child of node i + 1.
StatusCell(file, i) ==
    IF file.ext = "csv"
    THEN unquote(SelectSeq(file.text, LAMBDA line : ~isBlankLine(line))[i + 1][4])
    ELSE file.text[i + 1].status

\* C18 -- Every Book produced by bulk import has a readingStatus that is a
\* member of the ReadingStatus enumeration: a status text equal to an
\* enumeration value is kept, every other text (a missing one included)
\* becomes PlanningToRead.
C18_BulkStatusInEnumeration ==
    /\ \A i \in 1..Len(books) : books[i].readingStatus \in ReadingStatus
    /\ lastOp.op = "fileUpload" =>
          \A k \in 1..Len(parsedBooks) :
              LET book == parsedBooks[k]
                  cell == StatusCell(lastOp.arg, book.id[3])
              IN /\ book.readingStatus \in ReadingStatus
                 /\ cell \in {statusText(st) : st \in ReadingStatus} =>
                        statusText(book.readingStatus) = cell
                 /\ cell \notin {statusText(st) : st \in ReadingStatus} =>
                        book.readingStatus = PlanningToRead

C18_Witness ==
    /\ lastOp.op = "fileUpload"
    /\ Len(parsedBooks) = 2
    /\ StatusCell(lastOp.arg, parsedBooks[1].id[3]) = <<"okudum">>
    /\ parsedBooks[1].readingStatus = PlanningToRead
    /\ parsedBooks[2].readingStatus = Reading

----------------------------------------------------------------------------
(* Claims about the filters (SpecFilter) *)

\* s is t with some entries left out: same relative order, nothing added or altered
RECURSIVE IsSubsequence(_, _)
IsSubsequence(s, t) ==
    IF s = <<>> THEN TRUE
    ELSE IF t = <<>> THEN FALSE
    ELSE IF Head(s) = Head(t) THEN IsSubsequence(Tail(s), Tail(t))
    ELSE IsSubsequence(s, Tail(t))

\* C20 -- Filter correctness: for every Library the empty filter (all text
\* fields empty, category empty, readingStatus 'all') returns all books
\* unchanged and in the same order; for every filter the result is a
\* subsequence of the Library.
C20_FilterCorrect ==
    /\ IsSubsequence(filteredBooks(books, filters), books)
    /\ (/\ filters.title = <<>> /\ filters.author = <<>> /\ filters.publisher = <<>>
        /\ filters.category = <<>> /\ filters.readingStatus = "all") =>
           filteredBooks(books, filters) = books

C20_Witness ==
    /\ lastOp.op = "clearFilters"
    /\ Len(books) = 2
    /\ filteredBooks(books, filters) = books
    /\ filteredBooks(books, [filters EXCEPT !.author = <<"frank">>]) = <<books[2]>>

\* t is a substring of s when letter case is ignored
SubstringIgnoringCase(t, s) ==
    \E i \in 0..(Len(s) - Len(t)) :
        \A k \in 1..Len(t) : lowerToken(s[i + k]) = lowerToken(t[k])

\* C21 -- The filter AND-combines its predicates: a book is visible if and
\* only if the title filter is a case-insensitive substring of its title, and
\* the author filter of its joined authors, and the publisher filter of its
\* publisher, and the category filter is empty or a substring of the joined
\* categories, and the readingStatus filter is 'all' or equals the book's
\* status.
C21_FilterIsConjunction ==
    LET Visible(book) ==
            /\ SubstringIgnoringCase(filters.title, book.title)
            /\ SubstringIgnoringCase(filters.author, join(book.authors))
            /\ SubstringIgnoringCase(filters.publisher, book.publisher)
            /\ filters.category = <<>>
                  \/ SubstringIgnoringCase(filters.category, join(book.categories))
            /\ filters.readingStatus = "all" \/ filters.readingStatus = book.readingStatus
    IN filteredBooks(books, filters) = SelectSeq(books, Visible)

C21_Witness ==
    /\ filters.title = <<"Dune">>
    /\ filters.readingStatus = Read
    /\ Len(books) = 2
    /\ books[1].title = <<"dune">> /\ books[1].readingStatus = PlanningToRead
    /\ filteredBooks(books, filters) = <<books[2]>>

----------------------------------------------------------------------------
(* Claims about the statistics (SpecStats) *)

\* C22 -- Stats: for every Library, booksRead is the number of books with
\* status Read, and overallPercentage is round(100 * sum(currentPage) /
\* sum(pageCount)) taken over the books with status other than PlanningToRead
\* and pageCount > 0, and is 0 when that sum of pageCount is 0.
C22_StatsAsSpecified ==
    LET counted == {i \in 1..Len(books) :
                       books[i].readingStatus # PlanningToRead /\ books[i].pageCount > 0}
        RECURSIVE Sum(_, _)
        Sum(I, field) == IF I = {} THEN 0
                         ELSE LET i == CHOOSE x \in I : TRUE
                              IN books[i][field] + Sum(I \ {i}, field)
        pages == Sum(counted, "pageCount")
        read == Sum(counted, "currentPage")
    IN /\ stats(books).booksRead =
              Cardinality({i \in 1..Len(books) : books[i].readingStatus = Read})
       /\ stats(books).overallPercentage =
              IF pages = 0 THEN 0
              ELSE CHOOSE n \in 0..100 : 2 * pages * n <= 200 * read + pages
                                         /\ 200 * read + pages < 2 * pages * (n + 1)

\* The categories of all books in scanning order (book by book, each book's
\* categories in order), those in Skipped left out.
RECURSIVE Scanned(_, _)
Scanned(bs, Skipped) ==
    IF bs = <<>> THEN <<>>
    ELSE SelectSeq(bs[1].categories, LAMBDA cat : cat \notin Skipped)
         \o Scanned(Tail(bs), Skipped)

\* Of the categories of cats with the highest occurrence count, the position
\* in cats at which each is met first.
FirstMeetings(cats) ==
    LET Count(c) == Cardinality({j \in 1..Len(cats) : cats[j] = c})
        First(c) == CHOOSE j \in 1..Len(cats) :
                        cats[j] = c /\ \A k \in 1..(j - 1) : cats[k] # c
    IN {First(cats[j]) : j \in {i \in 1..Len(cats) :
                                    \A k \in 1..Len(cats) : Count(cats[k]) <= Count(cats[i])}}

CsvLines(file) == SelectSeq(file.text, LAMBDA line : ~isBlankLine(line))

\* The cells of a CSV line under the columns whose header, in lower case, is
\* one of names; quotes and surrounding white space removed.
Cells(file, line, names) ==
    LET header == CsvLines(file)[1] IN
    {unquote(line[c]) : c \in {d \in 1..Len(header) :
                                  /\ d <= Len(line)
                                  /\ toLowerCase(trim(header[d])) \in {<<n>> : n \in names}}}

\* The rows of an uploaded file that are not malformed, by the index the
\* parser gives them: a CSV line (the header being line 0) with at least as
\* many fields as the header, a title and an author; an XML node (counted
\* from 0) with a title.
WellFormedRows(file) ==
    IF file.ext = "csv"
    THEN LET lines == CsvLines(file) IN
         {i \in 1..(Len(lines) - 1) :
             /\ Len(lines[i + 1]) >= Len(lines[1])
             /\ Cells(file, lines[i + 1], {"title"}) \ {<<>>} # {}
             /\ Cells(file, lines[i + 1], {"author", "authors"}) \ {<<>>} # {}}
    ELSE {i \in 0..(Len(file.text) - 1) : file.text[i + 1].title # <<>>}

\* C24 -- Bulk-import partial validity: malformed rows never abort a parse;
\* a CSV data row with fewer fields than headers, or without a title, or
\* without an author, and an XML book node without a title, is skipped, and
\* every other row or node yields exactly one candidate, in file order.
C24_MalformedRowsSkipped ==
    (/\ lastOp.op = "fileUpload"
     /\ lastOp.arg.ext \in {"csv", "xml"}
     /\ ~FailedFile(lastOp.arg)) =>
        LET file == lastOp.arg
            rows == WellFormedRows(file)
        IN /\ Len(parsedBooks) = Cardinality(rows)
           /\ \A k \in 1..Len(parsedBooks) :
                  /\ parsedBooks[k].id[3] \in rows
                  /\ k > 1 => parsedBooks[k - 1].id[3] < parsedBooks[k].id[3]

\* The file with every alias in its header line replaced by the primary name.
PrimaryName(header) ==
    LET name == toLowerCase(trim(header)) IN
    CASE name = <<"authors">> -> <<"author">>
      [] name = <<"pages">> -> <<"pagecount">>
      [] name = <<"year">> -> <<"publisheddate">>
      [] name = <<"category">> -> <<"categories">>
      [] name = <<"thumbnail">> -> <<"imagelink">>
      [] OTHER -> header

WithPrimaryNames(file) ==
    [file EXCEPT !.text = [k \in 1..Len(file.text) |->
        IF k = 1 THEN [c \in 1..Len(file.text[1]) |-> PrimaryName(file.text[1][c])]
        ELSE file.text[k]]]

\* C25 -- CSV header aliases are recognized: a CSV that names a column by its
\* alias (authors for author, pages for pagecount, year for publisheddate,
\* category for categories, thumbnail for imagelink) yields the same
\* candidate books as the same file using the primary header name.
C25_HeaderAliasesRecognized ==
    (/\ lastOp.op = "fileUpload"
     /\ lastOp.arg.ext = "csv"
     /\ ~FailedFile(lastOp.arg)) =>
        LET primary == fileLoaded(WithPrimaryNames(lastOp.arg), now) IN
        /\ parsedBooks = primary.parsedBooks
        /\ bulkError = primary.bulkError

----------------------------------------------------------------------------
(* Claims about the assistant panel, checked under SpecChat *)

\* C26 -- A failing assistant call becomes a fallback reply: when the
\* upstream call of askBookworm throws and the panel that sent is still
\* mounted, the step that settles the call appends exactly one assistant
\* message, a fallback text, right after the user's message, clears the
\* loading flag, and leaves the Library and its stored snapshot unchanged.
C26_FailedAskGivesFallback ==
    [][(/\ lastOp'.op = "askSettled"
        /\ lastOp'.arg.upstream.throws
        /\ ~lastOp'.arg.call.unmounted) =>
            LET n == Len(chat.messages) IN
            /\ chat.messages[n] = Message("user", lastOp'.arg.call.query)
            /\ Len(chat'.messages) = n + 1
            /\ SubSeq(chat'.messages, 1, n) = chat.messages
            /\ chat'.messages[n + 1].role = "model"
            /\ chat'.messages[n + 1].content \in {AskFallback, ConnectFallback}
            /\ chat.isLoading
            /\ ~chat'.isLoading
            /\ books' = books
            /\ stored' = stored]_vars

\* C26 witness: a failed call was settled in a mounted panel over a filled
\* Library; the log ends with the fallback text and the panel is not loading.
C26_Witness ==
    /\ lastOp.op = "askSettled"
    /\ lastOp.arg.upstream.throws
    /\ ~lastOp.arg.call.unmounted
    /\ chat # NULL
    /\ chat.messages[Len(chat.messages)] = Message("model", AskFallback)
    /\ ~chat.isLoading
    /\ books # <<>>

\* The log of an open panel: the greeting, then user and assistant messages
\* in turn; the panel is loading exactly while the last message is the
\* user's, and exactly then one call of this panel is in flight.
ChatAlternates ==
    /\ chat = NULL => \A c \in asking : c.unmounted
    /\ chat # NULL =>
        /\ chat.messages[1] = Message("model", Greeting)
        /\ \A k \in 2..Len(chat.messages) :
               chat.messages[k].role = IF k % 2 = 0 THEN "user" ELSE "model"
        /\ chat.isLoading <=> Len(chat.messages) % 2 = 0
        /\ Cardinality({c \in asking : ~c.unmounted}) = IF chat.isLoading THEN 1 ELSE 0
        /\ \A c \in asking : ~c.unmounted => c.newMessages = chat.messages

\* A send while loading or with blank input changes nothing; while the panel
\* stays open a step keeps the log or appends one message to it.
ChatStep ==
    /\ (/\ lastOp'.op = "sendMessage"
        /\ chat.isLoading \/ trim(chat.userInput) = <<>>) =>
            UNCHANGED <<chat, asking, books, stored>>
    /\ (chat # NULL /\ chat' # NULL) =>
            /\ Len(chat'.messages) \in {Len(chat.messages), Len(chat.messages) + 1}
            /\ SubSeq(chat'.messages, 1, Len(chat.messages)) = chat.messages

\* C30 -- One request at a time: an open panel has at most one call in
\* flight; a send attempted while loading, or with empty or whitespace
\* input, changes nothing; after the greeting the log alternates user and
\* assistant messages, and no message is removed or reordered while the
\* panel stays open.
C30_OneRequestAtATime == []ChatAlternates /\ [][ChatStep]_vars

\* C30 witness: two exchanges were completed in an open panel.
C30_Witness ==
    /\ chat # NULL
    /\ Len(chat.messages) = 5
    /\ ~chat.isLoading
    /\ lastOp.op = "askSettled"

----------------------------------------------------------------------------
(* Claims about the search tab, checked under SpecSearch *)

\* C27 -- A failing catalogue search is surfaced as an error: when the
\* upstream call of searchBooks throws, the step that settles the search
\* leaves the view with its error message set ('Failed to fetch books.
\* Please try again.'), the loading flag false and an empty result list, and
\* leaves the Library and its stored snapshot unchanged.
C27_FailedSearchSurfaced ==
    [][(lastOp'.op = "searchSettled" /\ lastOp'.arg.throws) =>
            /\ search'.error = SearchError
            /\ ~search'.isLoading
            /\ search'.results = <<>>
            /\ books' = books
            /\ stored' = stored]_vars

----------------------------------------------------------------------------
(* Claims about cover changes and adds, checked under SpecCover *)

\* C28 -- No add is ever lost: every id of the Library is still in the
\* Library after every step (an add, an update, a dismissal, a cover change,
\* the completion of a cover call in flight), and the stored snapshot is the
\* Library after the step.
C28_NoAddLost ==
    [][/\ \A i \in 1..Len(books) : some(books', books[i].id)
       /\ stored' = Item(JSONstringify(books'))]_vars

\* C29 -- A cover change changes only the cover: a step that applies a
\* pasted URL, a confirmed web-search image or a resolved generated cover to
\* a book leaves the Library's length, every other book, and every field of
\* that book except its thumbnail as they were just before the step.
C29_CoverChangeOnly ==
    [][lastOp'.op \in {"coverFromUrl", "confirmWebImage", "generateResolved"} =>
            /\ Len(books') = Len(books)
            /\ \A i \in 1..Len(books) :
                   \/ i > Len(books')
                   \/ books'[i] = books[i]
                   \/ /\ books[i].id = lastOp'.arg.book.id
                      /\ books'[i] = [books[i] EXCEPT !.thumbnail = books'[i].thumbnail]]_vars

====
